---- MODULE Spec2Model ----
(***************************************************************************)
(* Model of the in-process task scheduler of                               *)
(* react-native-background-task-manager (src/src/TaskManager.ts).          *)
(*                                                                         *)
(* Task records are JavaScript objects: the table (a Map) and every        *)
(* suspended executeTask call hold REFERENCES to them, so the model keeps  *)
(* a heap of objects and lets the table and the executions point into it.  *)
(* Time is in milliseconds; the clock advances in steps of the sampling    *)
(* interval.                                                               *)
(*                                                                         *)
(* The service tracking of src/src/ForegroundService.ts (startService,     *)
(* stopService, stopServiceAll over the native module) is a second state   *)
(* machine with a specification of its own, ServiceSpec.                   *)
(***************************************************************************)
EXTENDS Integers, Sequences, FiniteSets, TLC

\* ---------------------------------------------------------------- bounds
MaxSteps == 3
MaxAdds == 2
MaxCalls == 3
ScenarioSteps == 7
MaxServiceCalls == 3
MaxServiceTime == 2

\* ------------------------------------------------------ program constants
samplingInterval == 500
DefaultTimeout == 30000

\* ------------------------------------------------------- JavaScript values
Undefined == "undefined"
UndefinedNum == -1
NaN == -2

\* a ?? b on a number
Coalesce(x, d) == IF x = UndefinedNum THEN d ELSE x
\* a ?? b on a string
CoalesceStr(x, d) == IF x = Undefined THEN d ELSE x
\* Date.now() + delay : a number plus undefined (or NaN) is NaN
Plus(a, b) == IF a = NaN \/ b = NaN \/ a = UndefinedNum \/ b = UndefinedNum THEN NaN ELSE a + b
\* a >= b on numbers : every comparison with NaN is false
GreaterEq(a, b) == IF a = NaN \/ b = NaN THEN FALSE ELSE a >= b
\* a <= b on numbers
LessEq(a, b) == IF a = NaN \/ b = NaN THEN FALSE ELSE a <= b

\* --------------------------------------------------------------- inputs
TaskIds == {"a"}
GenIds == {"task_r"}
AllIds == TaskIds \cup GenIds
ObjIds == 1..MaxAdds
Statuses == {"pending", "running", "paused", "completed", "failed"}

\* a TaskConfig literal
MkConfig(id, d, l, p, r, t, s, e) ==
  [taskId |-> id, delay |-> d, onLoop |-> l, priority |-> p,
   retryCount |-> r, timeout |-> t, onSuccess |-> s, onError |-> e]

\* one-shot, no delay, two retries, both callbacks, default priority and timeout
OneShot(id) == MkConfig(id, 0, FALSE, Undefined, 2, UndefinedNum, "returns", "returns")
\* repeating every 500 ms, one retry, high priority, 1000 ms timeout
Repeating(id) == MkConfig(id, 500, TRUE, "high", 1, 1000, "returns", "returns")
\* repeating, delay and retryCount not given, low priority, 500 ms timeout, no callbacks
Bare(id) == MkConfig(id, UndefinedNum, TRUE, "low", UndefinedNum, 500, Undefined, Undefined)
\* one-shot, no retry, 500 ms timeout, callbacks that throw
Throwing(id) == MkConfig(id, 0, FALSE, "normal", 0, 500, "throws", "throws")

\* the addTask(task, config) calls the host makes
AddInputs ==
  { [task |-> "f", config |-> OneShot("a")],
    [task |-> "f", config |-> Repeating("a")],
    [task |-> "f", config |-> Bare(Undefined)],
    [task |-> "f", config |-> Throwing(Undefined)] }

\* the updateTask(taskId, task, config) calls the host makes
UpdateInputs ==
  { [taskId |-> "a", task |-> "g", config |-> Repeating(Undefined)],
    [taskId |-> "a", task |-> "g", config |-> OneShot(Undefined)],
    [taskId |-> "task_r", task |-> "g", config |-> Repeating(Undefined)] }

\* ------------------------------------------------ Map<string, Task> (ordered)
MapKeys(m) == { m[i].key : i \in 1..Len(m) }
MapHas(m, k) == k \in MapKeys(m)
MapIndex(m, k) == CHOOSE i \in 1..Len(m) : m[i].key = k
MapGet(m, k) == m[MapIndex(m, k)].ref
MapSet(m, k, r) ==
  IF MapHas(m, k) THEN [m EXCEPT ![MapIndex(m, k)] = [key |-> k, ref |-> r]]
  ELSE Append(m, [key |-> k, ref |-> r])
MapDelete(m, k) == SelectSeq(m, LAMBDA kv : kv.key # k)
MapSize(m) == Len(m)
MapValues(m) == [i \in 1..Len(m) |-> m[i].ref]

VARIABLES
  tasks,        \* this.tasks : sequence of [key, ref] in insertion order
  heap,         \* the Task objects, by reference
  taskRunner,   \* this.taskRunner : interval handle or 0 for null
  isRunning,    \* this.isRunning
  timers,       \* the runtime's active interval timers : [id, due]
  executions,   \* executeTask calls suspended at the await : [obj, start, timeout]
  now,          \* Date.now()
  obs,          \* per id: outcomes of the executions since addTask created the record
  lastRun,      \* what the executeTask calls started or resumed in the last step did
  addCalls,     \* number of addTask/updateTask calls the host has made
  registryCalls, \* number of registry calls the host has made, those included
  late,          \* work() calls still pending after their race was lost to the timeout
  Platform,         \* react-native's Platform : [OS, Version]
  serviceStartTime, \* ForegroundService.serviceStartTime : a time or Null
  serviceCount,     \* ForegroundService.serviceCount
  pending,          \* service calls suspended at an await : [id, op, options, trace]
  settled,          \* the service call that resolved or rejected in the last step
  serviceCalls      \* number of service calls the host has made

\* the task manager's part of the state, the clock apart
tvars == <<tasks, heap, taskRunner, isRunning, timers, executions, obs, lastRun,
           addCalls, registryCalls, late>>
\* the foreground service's part of the state
svars == <<Platform, serviceStartTime, serviceCount, pending, settled, serviceCalls>>
vars == <<tasks, heap, taskRunner, isRunning, timers, executions, now, obs, lastRun,
          addCalls, registryCalls, late, Platform, serviceStartTime, serviceCount, pending,
          settled, serviceCalls>>


\* -------------------------------------------------------------- the heap
Refs(m, ex) == { m[i].ref : i \in 1..Len(m) } \cup { e.obj : e \in ex }
\* objects no longer referenced by the table or by a suspended call are reclaimed
Collect(h, m, ex) == [o \in (DOMAIN h) \cap Refs(m, ex) |-> h[o]]
HasFree(h) == ObjIds \ DOMAIN h # {}
NewRef(h) == CHOOSE o \in ObjIds \ DOMAIN h : \A p \in ObjIds \ DOMAIN h : o <= p
Store(h, o, task) == [p \in (DOMAIN h) \cup {o} |-> IF p = o THEN task ELSE h[p]]

\* ------------------------------------------------------------ observation
\* obs[id]: while clean, the record under id is the one addTask created with `config`,
\* no other registry call has named id since, and runs lists how its work() calls ended;
\* wasFailed: an execution has left the record under id failed since id was last added,
\* updated or removed;
\* pausedCount: executionCount of the record when pauseTask(id) paused it from pending, while
\* no resumeTask, addTask, updateTask or removal of id has followed;
\* resumedAt, resumedCount: Date.now() and executionCount when resumeTask(id) resumed the
\* record with no execution of id in flight, while no other registry call on id has followed;
\* replacedBy: the object that addTask or updateTask stored under id in place of the record
\* that was there, while an execution of id was in flight (0: none), and that no removal,
\* addTask or updateTask of id has followed;
\* dispatches: number of executions dispatched for id since addTask created the record under
\* id with no execution of id in flight, while id has not been removed (UndefinedNum: not
\* counted)
FreshObs(config) ==
  [config |-> config, runs |-> <<>>, clean |-> TRUE, onSuccess |-> 0, onError |-> 0,
   wasFailed |-> FALSE, pausedCount |-> UndefinedNum, resumedAt |-> UndefinedNum,
   resumedCount |-> UndefinedNum, replacedBy |-> 0, dispatches |-> 0]
NoConfig == MkConfig(Undefined, UndefinedNum, FALSE, Undefined, UndefinedNum, UndefinedNum,
                     Undefined, Undefined)
NoObs ==
  [config |-> NoConfig, runs |-> <<>>, clean |-> FALSE, onSuccess |-> 0, onError |-> 0,
   wasFailed |-> FALSE, pausedCount |-> UndefinedNum, resumedAt |-> UndefinedNum,
   resumedCount |-> UndefinedNum, replacedBy |-> 0, dispatches |-> UndefinedNum]
\* a pause or resume ends the clean history
Touched(ob) ==
  [NoObs EXCEPT !.wasFailed = ob.wasFailed, !.replacedBy = ob.replacedBy,
                !.dispatches = ob.dispatches]
\* pauseTask(id): a pause of a pending record is noted, a pause of a paused record changes
\* nothing
PausedObs(ob, id) ==
  IF ~MapHas(tasks, id) THEN Touched(ob)
  ELSE LET task == heap[MapGet(tasks, id)]
       IN CASE task.status = "pending" ->
                 [Touched(ob) EXCEPT !.pausedCount = task.executionCount]
            [] task.status = "paused" -> [Touched(ob) EXCEPT !.pausedCount = ob.pausedCount]
            [] OTHER -> Touched(ob)
\* resumeTask(id): a resume of a paused record is noted, any other call changes nothing
ResumedObs(ob, id) ==
  IF MapHas(tasks, id) /\ heap[MapGet(tasks, id)].status = "paused"
  THEN IF \E e \in executions : heap[e.obj].taskId = id
       THEN Touched(ob)
       ELSE [Touched(ob) EXCEPT !.resumedAt = now,
                                !.resumedCount = heap[MapGet(tasks, id)].executionCount]
  ELSE [Touched(ob) EXCEPT !.pausedCount = ob.pausedCount, !.resumedAt = ob.resumedAt,
                           !.resumedCount = ob.resumedCount]
NoRun == [taskId |-> Undefined, outcome |-> "none", error |-> "none", statusAfter |-> "none",
          onError |-> Undefined, calls |-> <<>>, dispatched |-> <<>>, returned |-> Undefined,
          removed |-> <<>>, lateResult |-> Undefined, armed |-> FALSE]
InFlight(id) == { e \in executions : heap[e.obj].taskId = id }

\* ----------------------------------------------------------- Task records
\* addTask: the config stored in the record, with defaults applied
NormalizeConfig(config) ==
  [config EXCEPT !.priority = CoalesceStr(config.priority, "normal"),
                 !.retryCount = Coalesce(config.retryCount, 0),
                 !.timeout = Coalesce(config.timeout, DefaultTimeout)]

\* variant: the delay is not applied to the first run
NewTaskDueNow(taskId, taskFn, config, t) ==
  [taskId |-> taskId,
   task |-> taskFn,
   config |-> NormalizeConfig(config),
   nextExecutionTime |-> t,
   executionCount |-> 0,
   status |-> "pending",
   lastExecutionTime |-> UndefinedNum,
   retryAttempts |-> 0]

\* addTask: the record literal
NewTask(taskId, taskFn, config, t) ==
  [taskId |-> taskId,
   task |-> taskFn,
   config |-> NormalizeConfig(config),
   nextExecutionTime |-> Plus(t, Coalesce(config.delay, 0)),
   executionCount |-> 0,
   status |-> "pending",
   lastExecutionTime |-> UndefinedNum,
   retryAttempts |-> 0]

\* variant: the update starts the counters again
UpdatedTaskFreshCounters(existingTask, taskFn, config, t) ==
  [existingTask EXCEPT !.task = taskFn,
                       !.config = NormalizeConfig(config),
                       !.nextExecutionTime = Plus(t, Coalesce(config.delay, 0)),
                       !.status = "pending",
                       !.executionCount = 0,
                       !.retryAttempts = 0]

\* updateTask: { ...existingTask, task, config, nextExecutionTime, status }
UpdatedTask(existingTask, taskFn, config, t) ==
  [existingTask EXCEPT !.task = taskFn,
                       !.config = NormalizeConfig(config),
                       !.nextExecutionTime = Plus(t, Coalesce(config.delay, 0)),
                       !.status = "pending"]

\* ------------------------------------------------------------ task runner
NewHandle == CHOOSE h \in 1..(Cardinality(timers) + 1) : \A t \in timers : t.id # h

\* variant: the interval is armed without looking at isRunning
StartTaskRunnerAlways ==
  /\ isRunning' = TRUE
  /\ taskRunner' = NewHandle
  /\ timers' = timers \cup {[id |-> NewHandle, due |-> now + samplingInterval]}

StartTaskRunner ==
  IF isRunning
  THEN UNCHANGED <<isRunning, taskRunner, timers>>
  ELSE /\ isRunning' = TRUE
       /\ taskRunner' = NewHandle
       /\ timers' = timers \cup {[id |-> NewHandle, due |-> now + samplingInterval]}

StopTaskRunner ==
  /\ IF taskRunner # 0
     THEN /\ timers' = { t \in timers : t.id # taskRunner }
          /\ taskRunner' = 0
     ELSE UNCHANGED <<timers, taskRunner>>
  /\ isRunning' = FALSE

\* --------------------------------------------------------- registry calls
\* addTask with the id already resolved (config.taskId ?? generateTaskId())
AddTaskAs(taskId, taskFn, config) ==
  /\ HasFree(heap)
  /\ LET o == NewRef(heap)
         m == MapSet(tasks, taskId, o)
     IN /\ tasks' = m
        /\ heap' = Collect(Store(heap, o, NewTask(taskId, taskFn, config, now)), m, executions)
  /\ StartTaskRunner
  /\ obs' = [obs EXCEPT ![taskId] =
               IF InFlight(taskId) = {} THEN FreshObs(config)
               ELSE [NoObs EXCEPT !.replacedBy = IF MapHas(tasks, taskId) THEN NewRef(heap)
                                                 ELSE 0]]
  /\ lastRun' = [NoRun EXCEPT !.returned = taskId, !.armed = ~isRunning]
  /\ UNCHANGED <<executions, now>>

\* generateTaskId(): a random string, taken not to collide with a key in use
GenerateTaskId == GenIds \ MapKeys(tasks)

AddTask(taskFn, config) ==
  IF config.taskId # Undefined
  THEN AddTaskAs(config.taskId, taskFn, config)
  ELSE \E g \in GenerateTaskId : AddTaskAs(g, taskFn, config)

\* variant: the size of the table is taken before the delete
RemoveTaskSizeBefore(taskId) ==
  /\ tasks' = MapDelete(tasks, taskId)
  /\ heap' = Collect(heap, tasks', executions)
  /\ IF MapSize(tasks) = 0
     THEN StopTaskRunner
     ELSE UNCHANGED <<isRunning, taskRunner, timers>>
  /\ obs' = [obs EXCEPT ![taskId] = NoObs]
  /\ lastRun' = [NoRun EXCEPT !.removed = Append(lastRun.removed, taskId)]
  /\ UNCHANGED <<executions, now>>

RemoveTask(taskId) ==
  /\ tasks' = MapDelete(tasks, taskId)
  /\ heap' = Collect(heap, tasks', executions)
  /\ IF MapSize(tasks') = 0
     THEN StopTaskRunner
     ELSE UNCHANGED <<isRunning, taskRunner, timers>>
  /\ obs' = [obs EXCEPT ![taskId] = NoObs]
  /\ lastRun' = [NoRun EXCEPT !.removed = Append(lastRun.removed, taskId)]
  /\ UNCHANGED <<executions, now>>

\* variant: an unknown id is added under the id of the config, not under taskId
UpdateTaskOwnId(taskId, taskFn, config) ==
  IF ~MapHas(tasks, taskId)
  THEN AddTask(taskFn, config)
  ELSE /\ HasFree(heap)
       /\ LET o == NewRef(heap)
              existingTask == heap[MapGet(tasks, taskId)]
              m == MapSet(tasks, taskId, o)
          IN /\ tasks' = m
             /\ heap' = Collect(Store(heap, o, UpdatedTask(existingTask, taskFn, config, now)),
                                m, executions)
       /\ obs' = [obs EXCEPT ![taskId] = NoObs]
       /\ lastRun' = NoRun
  /\ UNCHANGED <<isRunning, taskRunner, timers, executions, now>>

UpdateTask(taskId, taskFn, config) ==
  IF ~MapHas(tasks, taskId)
  THEN AddTask(taskFn, [config EXCEPT !.taskId = taskId])
  ELSE /\ HasFree(heap)
       /\ LET o == NewRef(heap)
              existingTask == heap[MapGet(tasks, taskId)]
              m == MapSet(tasks, taskId, o)
          IN /\ tasks' = m
             /\ heap' = Collect(Store(heap, o, UpdatedTask(existingTask, taskFn, config, now)),
                                m, executions)
       /\ obs' = [obs EXCEPT ![taskId] =
                    [NoObs EXCEPT !.replacedBy = IF InFlight(taskId) = {} THEN 0
                                                 ELSE NewRef(heap),
                                  !.dispatches = obs[taskId].dispatches]]
       /\ lastRun' = NoRun
  /\ UNCHANGED <<isRunning, taskRunner, timers, executions, now>>

PauseTask(taskId) ==
  /\ IF MapHas(tasks, taskId) /\ heap[MapGet(tasks, taskId)].status # "paused"
     THEN /\ heap' = [heap EXCEPT ![MapGet(tasks, taskId)].status = "paused"]
          /\ tasks' = MapSet(tasks, taskId, MapGet(tasks, taskId))
     ELSE UNCHANGED <<heap, tasks>>
  /\ obs' = [obs EXCEPT ![taskId] = PausedObs(@, taskId)]
  /\ lastRun' = NoRun
  /\ UNCHANGED <<isRunning, taskRunner, timers, executions, now>>

ResumeTask(taskId) ==
  /\ IF MapHas(tasks, taskId) /\ heap[MapGet(tasks, taskId)].status = "paused"
     THEN /\ heap' = [heap EXCEPT
                 ![MapGet(tasks, taskId)].status = "pending",
                 ![MapGet(tasks, taskId)].nextExecutionTime =
                     Plus(now, Coalesce(heap[MapGet(tasks, taskId)].config.delay, 0))]
          /\ tasks' = MapSet(tasks, taskId, MapGet(tasks, taskId))
     ELSE UNCHANGED <<heap, tasks>>
  /\ obs' = [obs EXCEPT ![taskId] = ResumedObs(@, taskId)]
  /\ lastRun' = NoRun
  /\ UNCHANGED <<isRunning, taskRunner, timers, executions, now>>

RemoveAllTasks ==
  /\ tasks' = <<>>
  /\ heap' = Collect(heap, tasks', executions)
  /\ StopTaskRunner
  /\ obs' = [id \in AllIds |-> NoObs]
  /\ lastRun' = NoRun
  /\ UNCHANGED <<executions, now>>

\* ------------------------------------------------------- the polling cycle
\* variant: the due time is not looked at
ShouldExecuteTaskAnyTime(task, t) == task.status = "pending"

ShouldExecuteTask(task, t) ==
  task.status = "pending" /\ GreaterEq(t, task.nextExecutionTime)

GetTaskPriority(priority) ==
  CASE priority = "high" -> 1
    [] priority = "normal" -> 2
    [] priority = "low" -> 3
    [] OTHER -> 2

\* variant: the comparator with its operands exchanged
ComparePriorityReversed(a, b) ==
  GetTaskPriority(b.config.priority) - GetTaskPriority(a.config.priority)

\* comparator of the sort in executeTasksCycle
ComparePriority(a, b) == GetTaskPriority(a.config.priority) - GetTaskPriority(b.config.priority)

\* Array.prototype.sort is stable: x goes behind every element that does not compare greater
InsertSorted(sorted, x, h) ==
  LET keep == { i \in 1..Len(sorted) : ComparePriority(h[sorted[i]], h[x]) <= 0 }
      k == Cardinality({ i \in 1..Len(sorted) : \A j \in 1..i : j \in keep })
  IN SubSeq(sorted, 1, k) \o <<x>> \o SubSeq(sorted, k + 1, Len(sorted))

RECURSIVE SortByPriority(_, _)
SortByPriority(refs, h) ==
  IF refs = <<>> THEN <<>>
  ELSE InsertSorted(SortByPriority(SubSeq(refs, 1, Len(refs) - 1), h), refs[Len(refs)], h)

\* variant: a cycle that finds a failed record dispatches nothing
ReadyTasksUnlessFailed(m, h, t) ==
  IF \E i \in 1..Len(m) : h[m[i].ref].status = "failed"
  THEN <<>>
  ELSE SortByPriority(SelectSeq(MapValues(m), LAMBDA o : ShouldExecuteTask(h[o], t)), h)

\* variant: a cycle dispatches nothing while an execution of an earlier cycle is in flight
ReadyTasksWhenIdle(m, h, t) ==
  IF executions # {}
  THEN <<>>
  ELSE SortByPriority(SelectSeq(MapValues(m), LAMBDA o : ShouldExecuteTask(h[o], t)), h)

\* executeTasksCycle: Array.from(values).filter(shouldExecuteTask).sort(priority)
ReadyTasks(m, h, t) ==
  SortByPriority(SelectSeq(MapValues(m), LAMBDA o : ShouldExecuteTask(h[o], t)), h)

\* executeTask up to its await: the record is marked running
StartedTask(task, t) ==
  [task EXCEPT !.status = "running",
               !.lastExecutionTime = t,
               !.executionCount = @ + 1]

RECURSIVE DispatchAll(_, _, _, _)
\* the map over readyTasks: every executeTask call runs up to its await, in order
DispatchAll(ready, h, m, t) ==
  IF ready = <<>> THEN [heap |-> h, tasks |-> m]
  ELSE LET o == Head(ready)
           task == StartedTask(h[o], t)
       IN DispatchAll(Tail(ready), [h EXCEPT ![o] = task], MapSet(m, task.taskId, o), t)

\* one firing of the interval timer: executeTasksCycle
Tick(timer) ==
  /\ timer \in timers
  /\ now >= timer.due
  /\ timers' = (timers \ {timer}) \cup {[timer EXCEPT !.due = @ + samplingInterval]}
  /\ IF ~isRunning
     THEN UNCHANGED <<tasks, heap, executions, obs>> /\ lastRun' = NoRun
     ELSE LET ready == ReadyTasks(tasks, heap, now)
              d == DispatchAll(ready, heap, tasks, now)
          IN /\ tasks' = d.tasks
             /\ heap' = d.heap
             /\ executions' = executions \cup
                  { [obj |-> ready[i], start |-> now, timeout |-> heap[ready[i]].config.timeout]
                      : i \in 1..Len(ready) }
             /\ lastRun' = [NoRun EXCEPT
                              !.dispatched = [i \in 1..Len(ready) |-> heap[ready[i]].taskId]]
             /\ obs' = [id \in AllIds |->
                          IF obs[id].dispatches # UndefinedNum
                             /\ \E i \in 1..Len(ready) : heap[ready[i]].taskId = id
                          THEN [obs[id] EXCEPT !.dispatches = @ + 1]
                          ELSE obs[id]]
  /\ UNCHANGED <<taskRunner, isRunning, now, addCalls, registryCalls>>

\* ------------------------------------------------- executeTask after the await
\* variant: the test with < for <=
ShouldRetryStrict(task) == task.retryAttempts < Coalesce(task.config.retryCount, 0)

\* the retry test of the catch branch
ShouldRetry(task) == LessEq(task.retryAttempts, Coalesce(task.config.retryCount, 0))

\* the error the catch branch receives
ErrorOf(outcome) ==
  CASE outcome = "rejected" -> "work rejected"
    [] outcome = "timeout" -> "Task timeout"
    [] OTHER -> "onSuccess threw"

\* variant: a repeating task is due again at once
SucceededDueNow(task, t) ==
  IF task.config.onLoop
  THEN [task EXCEPT !.status = "pending", !.nextExecutionTime = t]
  ELSE [task EXCEPT !.status = "completed"]

\* success branch, before the callback
Succeeded(task, t) ==
  IF task.config.onLoop
  THEN [task EXCEPT !.status = "pending", !.nextExecutionTime = Plus(t, task.config.delay)]
  ELSE [task EXCEPT !.status = "completed"]

\* variant: a failure is retried without being counted
FailedNotCounted(task, t) ==
  [task EXCEPT !.status = "pending", !.nextExecutionTime = Plus(t, task.config.delay)]

\* catch branch, before the callback
Failed(task, t) ==
  LET counted == [task EXCEPT !.retryAttempts = @ + 1]
  IN IF ShouldRetry(counted)
     THEN [counted EXCEPT !.status = "pending", !.nextExecutionTime = Plus(t, task.config.delay)]
     ELSE [counted EXCEPT !.status = "failed"]

\* variant: a timeout is not reported
OnErrorDueNoTimeout(task, error) ==
  task.status = "failed" /\ task.config.onError # Undefined /\ error # "Task timeout"

\* the else branch of the catch: onError is called once the record is marked failed
OnErrorDue(task, error) == task.status = "failed" /\ task.config.onError # Undefined

Call(cb, arg, task, m, o) ==
  [cb |-> cb, arg |-> arg, statusSeen |-> task.status,
   inTable |-> MapHas(m, task.taskId) /\ MapGet(m, task.taskId) = o]

\* variant: onSuccess is called ahead of the bookkeeping of the success branch
ExecuteTaskResumeCallbackFirst(o, task, m, outcome, t) ==
  LET resolved == outcome = "resolved"
      t1 == IF resolved THEN Succeeded(task, t) ELSE task
      m1 == IF resolved /\ ~task.config.onLoop THEN MapDelete(m, task.taskId) ELSE m
      callS == resolved /\ task.config.onSuccess # Undefined
      thrown == ~resolved \/ (callS /\ task.config.onSuccess = "throws")
      error == IF resolved THEN ErrorOf("callback") ELSE ErrorOf(outcome)
      t2 == IF thrown THEN Failed(t1, t) ELSE t1
      callE == thrown /\ OnErrorDue(t2, error)
      escaped == callE /\ task.config.onError = "throws"
      m2 == IF escaped THEN m1 ELSE MapSet(m1, task.taskId, o)
  IN [task |-> t2,
      tasks |-> m2,
      error |-> IF thrown THEN error ELSE "none",
      calls |-> (IF callS THEN <<Call("onSuccess", "none", task, m, o)>> ELSE <<>>)
                \o (IF callE THEN <<Call("onError", error, t2, m1, o)>> ELSE <<>>)]

\* executeTask from the await to its end, for the record o and the way the race settled
ExecuteTaskResume(o, task, m, outcome, t) ==
  LET resolved == outcome = "resolved"
      t1 == IF resolved THEN Succeeded(task, t) ELSE task
      m1 == IF resolved /\ ~task.config.onLoop THEN MapDelete(m, task.taskId) ELSE m
      callS == resolved /\ task.config.onSuccess # Undefined
      thrown == ~resolved \/ (callS /\ task.config.onSuccess = "throws")
      error == IF resolved THEN ErrorOf("callback") ELSE ErrorOf(outcome)
      t2 == IF thrown THEN Failed(t1, t) ELSE t1
      callE == thrown /\ OnErrorDue(t2, error)
      escaped == callE /\ task.config.onError = "throws"
      m2 == IF escaped THEN m1 ELSE MapSet(m1, task.taskId, o)
  IN [task |-> t2,
      tasks |-> m2,
      error |-> IF thrown THEN error ELSE "none",
      calls |-> (IF callS THEN <<Call("onSuccess", "none", t1, m1, o)>> ELSE <<>>)
                \o (IF callE THEN <<Call("onError", error, t2, m1, o)>> ELSE <<>>)]

CountCalls(calls, cb) == Cardinality({ i \in 1..Len(calls) : calls[i].cb = cb })

Observe(ob, outcome, calls, failed) ==
  IF ob.clean
  THEN [config |-> ob.config,
        runs |-> Append(ob.runs, IF outcome = "resolved" THEN "ok" ELSE "fail"),
        clean |-> TRUE,
        onSuccess |-> ob.onSuccess + CountCalls(calls, "onSuccess"),
        onError |-> ob.onError + CountCalls(calls, "onError"),
        wasFailed |-> ob.wasFailed \/ failed,
        pausedCount |-> ob.pausedCount, resumedAt |-> ob.resumedAt,
        resumedCount |-> ob.resumedCount, replacedBy |-> ob.replacedBy,
        dispatches |-> ob.dispatches]
  ELSE [ob EXCEPT !.wasFailed = @ \/ failed]

\* the race of work() against the timeout settles and executeTask runs to its end
Complete(e, outcome) ==
  /\ e \in executions
  /\ outcome = "timeout" => now >= e.start + e.timeout
  /\ LET task == heap[e.obj]
         r == ExecuteTaskResume(e.obj, task, tasks, outcome, now)
     IN /\ tasks' = r.tasks
        /\ executions' = executions \ {e}
        /\ heap' = Collect([heap EXCEPT ![e.obj] = r.task], r.tasks, executions')
        /\ obs' = [obs EXCEPT ![task.taskId] = Observe(@, outcome, r.calls,
                     /\ r.task.status = "failed"
                     /\ MapHas(r.tasks, task.taskId)
                     /\ MapGet(r.tasks, task.taskId) = e.obj)]
        /\ lastRun' = [taskId |-> task.taskId, outcome |-> outcome, error |-> r.error,
                       statusAfter |-> r.task.status, onError |-> task.config.onError,
                       calls |-> r.calls, dispatched |-> <<>>, returned |-> Undefined,
                       removed |-> <<>>, lateResult |-> Undefined, armed |-> FALSE]
        /\ late' = IF outcome = "timeout"
                   THEN late \cup {[taskId |-> task.taskId, start |-> e.start]}
                   ELSE late
  /\ UNCHANGED <<taskRunner, isRunning, timers, now, addCalls, registryCalls>>

\* variant: the late result of work() is handled as the result of the execution
LateResultApplied(w, outcome) ==
  /\ w \in late
  /\ late' = late \ {w}
  /\ IF MapHas(tasks, w.taskId)
     THEN LET o == MapGet(tasks, w.taskId)
              r == ExecuteTaskResume(o, heap[o], tasks, outcome, now)
          IN /\ tasks' = r.tasks
             /\ heap' = Collect([heap EXCEPT ![o] = r.task], r.tasks, executions)
             /\ lastRun' = [NoRun EXCEPT !.lateResult = outcome, !.calls = r.calls]
     ELSE /\ UNCHANGED <<tasks, heap>>
          /\ lastRun' = [NoRun EXCEPT !.lateResult = outcome]
  /\ UNCHANGED <<executions, obs, taskRunner, isRunning, timers, now, addCalls, registryCalls>>

\* the promise of a work() call settles after Promise.race has settled with the timeout: the
\* race ignores it, and executeTask has no other handler on it
LateResult(w, outcome) ==
  /\ w \in late
  /\ late' = late \ {w}
  /\ lastRun' = [NoRun EXCEPT !.lateResult = outcome]
  /\ UNCHANGED <<tasks, heap, executions, obs, taskRunner, isRunning, timers, now, addCalls,
                 registryCalls>>

\* -------------------------------------------------------------------- time
\* timers fire when due: the clock does not pass a due interval timer or timeout
AdvanceTime ==
  /\ now < MaxSteps * samplingInterval
  /\ \A t \in timers : now < t.due
  /\ \A e \in executions : now < e.start + e.timeout
  /\ now' = now + samplingInterval
  /\ lastRun' = NoRun
  /\ UNCHANGED <<tasks, heap, taskRunner, isRunning, timers, executions, obs, addCalls, registryCalls>>
  /\ UNCHANGED late
  /\ UNCHANGED svars

\* ----------------------------------------------------------------- queries
\* { ...a, ...b } on object literals
SpreadInto(a, b) == [k \in (DOMAIN a) \cup (DOMAIN b) |-> IF k \in DOMAIN b THEN b[k] ELSE a[k]]
\* ...(cond && obj) : nothing is spread when cond is false
SpreadIf(cond, obj) == IF cond THEN obj ELSE <<>>

\* variant: lastExecutionTime is copied whether it is set or not
TaskStatusOfAllKeys(task) ==
  [taskId |-> task.taskId,
   isRunning |-> task.status = "running",
   executionCount |-> task.executionCount,
   lastExecutionTime |-> task.lastExecutionTime,
   nextExecutionTime |-> task.nextExecutionTime,
   status |-> task.status]

\* the TaskStatus literal of getTaskStatus and getAllTasks
TaskStatusOf(task) ==
  SpreadInto(
    SpreadInto([taskId |-> task.taskId,
                isRunning |-> task.status = "running",
                executionCount |-> task.executionCount,
                status |-> task.status],
               SpreadIf(task.lastExecutionTime # UndefinedNum,
                        [lastExecutionTime |-> task.lastExecutionTime])),
    SpreadIf(task.nextExecutionTime # UndefinedNum,
             [nextExecutionTime |-> task.nextExecutionTime]))

\* getTaskStatus: <<>> stands for null
GetTaskStatus(taskId) ==
  IF ~MapHas(tasks, taskId) THEN <<>> ELSE <<TaskStatusOf(heap[MapGet(tasks, taskId)])>>

GetAllTasks == [k \in MapKeys(tasks) |-> TaskStatusOf(heap[MapGet(tasks, k)])]

IsTaskRunning(taskId) ==
  IF MapHas(tasks, taskId) THEN heap[MapGet(tasks, taskId)].status = "running" ELSE FALSE

CountStatus(st) == Cardinality({ i \in 1..Len(tasks) : heap[tasks[i].ref].status = st })

\* variant: a paused record counted as pending
GetStatsPausedAsPending ==
  [totalTasks |-> Len(tasks),
   runningTasks |-> CountStatus("running"),
   pendingTasks |-> CountStatus("pending") + CountStatus("paused"),
   completedTasks |-> CountStatus("completed"),
   failedTasks |-> CountStatus("failed")]

GetStats ==
  [totalTasks |-> Len(tasks),
   runningTasks |-> CountStatus("running"),
   pendingTasks |-> CountStatus("pending"),
   completedTasks |-> CountStatus("completed"),
   failedTasks |-> CountStatus("failed")]

\* ------------------------------------------------- the foreground service
\* null, where a number is expected
Null == -3
\* !x on a string
Falsy(x) == x = Undefined \/ x = ""

\* a ForegroundServiceOptions literal
MkOptions(taskName, taskTitle, serviceType) ==
  [taskName |-> taskName, taskTitle |-> taskTitle, taskDesc |-> "Testing foreground service",
   serviceType |-> serviceType]
ServiceOptions ==
  { MkOptions(n, t, st) : n \in {Undefined, "", "test-task"}, t \in {Undefined, "Test Task"},
                          st \in {Undefined, "dataSync"} }
NoOptions == MkOptions(Undefined, Undefined, Undefined)
\* the devices: Android 13, 14 and 15, and an iPhone
Platforms == { [OS |-> "android", Version |-> 33], [OS |-> "android", Version |-> 34],
               [OS |-> "android", Version |-> 35], [OS |-> "ios", Version |-> 17] }
\* the device of the test suite
TestPlatform == [OS |-> "android", Version |-> 34]

NoCall == [op |-> "none", options |-> NoOptions, outcome |-> "none", error |-> "none",
           trace |-> <<>>]
\* the promise of the call settles
Settled(op, options, outcome, error, trace) ==
  [op |-> op, options |-> options, outcome |-> outcome, error |-> error, trace |-> trace]
\* a method of the native module (RNForegroundService) is called and awaited
Invoke(trace, method) == Append(trace, [method |-> method, result |-> "pending"])
\* the awaited promise settles
Returned(trace, result) == [trace EXCEPT ![Len(trace)].result = result]
NativeResults(method) ==
  IF method \in {"checkPermission", "requestPermission"}
  THEN {"true", "false", "rejects"}
  ELSE {"resolves", "rejects"}

\* variant: the service type is not looked at
ValidationErrorNamesOnly(options) ==
  IF Falsy(options.taskName) \/ Falsy(options.taskTitle)
  THEN "taskName and taskTitle are required fields"
  ELSE "none"

\* startService: the two throws ahead of the try block
ValidationError(options) ==
  IF Falsy(options.taskName) \/ Falsy(options.taskTitle)
  THEN "taskName and taskTitle are required fields"
  ELSE IF Platform.Version >= 34 /\ Falsy(options.serviceType)
       THEN "serviceType is required for Android 14+ (API level 34)"
       ELSE "none"

\* the host makes one more service call
HostServiceCall ==
  /\ serviceCalls < MaxServiceCalls
  /\ serviceCalls' = serviceCalls + 1
  /\ UNCHANGED <<Platform, now>>
  /\ UNCHANGED tvars

\* startService up to its first await: this.checkPermission() calls the native checkPermission
StartService(options) ==
  /\ IF Platform.OS # "android"
     THEN /\ settled' = Settled("startService", options, "resolved", "none", <<>>)
          /\ UNCHANGED pending
     ELSE IF ValidationError(options) # "none"
          THEN /\ settled' = Settled("startService", options, "rejected",
                                     ValidationError(options), <<>>)
               /\ UNCHANGED pending
          ELSE /\ pending' = pending \cup
                   {[id |-> serviceCalls + 1, op |-> "startService", options |-> options,
                     trace |-> Invoke(<<>>, "checkPermission")]}
               /\ settled' = NoCall
  /\ UNCHANGED <<serviceStartTime, serviceCount>>

\* stopService and stopServiceAll up to their await
StopCall(op) ==
  /\ IF Platform.OS # "android"
     THEN /\ settled' = Settled(op, NoOptions, "resolved", "none", <<>>)
          /\ UNCHANGED pending
     ELSE /\ pending' = pending \cup
              {[id |-> serviceCalls + 1, op |-> op, options |-> NoOptions,
                trace |-> Invoke(<<>>, op)]}
          /\ settled' = NoCall
  /\ UNCHANGED <<serviceStartTime, serviceCount>>
StopService == StopCall("stopService")
StopServiceAll == StopCall("stopServiceAll")

\* variant: the count is not clamped
Max0Unclamped(n) == n

\* Math.max(0, n)
Max0(n) == IF n < 0 THEN 0 ELSE n

\* variant: a refused permission request does not stop the start
NativeReturnsUngated(c, result) ==
  LET method == c.trace[Len(c.trace)].method
      trace == Returned(c.trace, result)
      Reject(error) ==
        /\ pending' = pending \ {c}
        /\ settled' = Settled(c.op, c.options, "rejected", error, trace)
        /\ UNCHANGED <<serviceStartTime, serviceCount>>
      Continue(next) ==
        /\ pending' = (pending \ {c}) \cup {[c EXCEPT !.trace = Invoke(trace, next)]}
        /\ settled' = NoCall
        /\ UNCHANGED <<serviceStartTime, serviceCount>>
      Resolve ==
        /\ pending' = pending \ {c}
        /\ settled' = Settled(c.op, c.options, "resolved", "none", trace)
  IN /\ CASE method = "checkPermission" ->
               CASE result = "true" -> Continue("startService")
                 [] result = "false" -> Continue("requestPermission")
                 [] OTHER -> Reject("Failed to start foreground service: native error")
          [] method = "requestPermission" ->
               CASE result = "true" -> Continue("startService")
                 [] result = "false" -> Continue("startService")
                 [] OTHER -> Reject("Failed to start foreground service: native error")
          [] method = "startService" ->
               IF result = "resolves"
               THEN /\ serviceStartTime' = now
                    /\ serviceCount' = serviceCount + 1
                    /\ Resolve
               ELSE Reject("Failed to start foreground service: native error")
          [] method = "stopService" ->
               IF result = "resolves"
               THEN /\ serviceCount' = Max0(serviceCount - 1)
                    /\ serviceStartTime' = IF serviceCount' = 0 THEN Null ELSE serviceStartTime
                    /\ Resolve
               ELSE Reject("Failed to stop foreground service: native error")
          [] method = "stopServiceAll" ->
               IF result = "resolves"
               THEN /\ serviceCount' = 0
                    /\ serviceStartTime' = Null
                    /\ Resolve
               ELSE Reject("Failed to stop all foreground services: native error")
     /\ UNCHANGED <<Platform, serviceCalls, now>>
     /\ UNCHANGED tvars

\* the promise awaited by call c settles with result: c runs on to its next await or to its end
NativeReturns(c, result) ==
  LET method == c.trace[Len(c.trace)].method
      trace == Returned(c.trace, result)
      Reject(error) ==
        /\ pending' = pending \ {c}
        /\ settled' = Settled(c.op, c.options, "rejected", error, trace)
        /\ UNCHANGED <<serviceStartTime, serviceCount>>
      Continue(next) ==
        /\ pending' = (pending \ {c}) \cup {[c EXCEPT !.trace = Invoke(trace, next)]}
        /\ settled' = NoCall
        /\ UNCHANGED <<serviceStartTime, serviceCount>>
      Resolve ==
        /\ pending' = pending \ {c}
        /\ settled' = Settled(c.op, c.options, "resolved", "none", trace)
  IN /\ CASE method = "checkPermission" ->
               CASE result = "true" -> Continue("startService")
                 [] result = "false" -> Continue("requestPermission")
                 [] OTHER -> Reject("Failed to start foreground service: native error")
          [] method = "requestPermission" ->
               CASE result = "true" -> Continue("startService")
                 [] result = "false" ->
                      Reject("Failed to start foreground service: Error: Foreground service permission denied")
                 [] OTHER -> Reject("Failed to start foreground service: native error")
          [] method = "startService" ->
               IF result = "resolves"
               THEN /\ serviceStartTime' = now
                    /\ serviceCount' = serviceCount + 1
                    /\ Resolve
               ELSE Reject("Failed to start foreground service: native error")
          [] method = "stopService" ->
               IF result = "resolves"
               THEN /\ serviceCount' = Max0(serviceCount - 1)
                    /\ serviceStartTime' = IF serviceCount' = 0 THEN Null ELSE serviceStartTime
                    /\ Resolve
               ELSE Reject("Failed to stop foreground service: native error")
          [] method = "stopServiceAll" ->
               IF result = "resolves"
               THEN /\ serviceCount' = 0
                    /\ serviceStartTime' = Null
                    /\ Resolve
               ELSE Reject("Failed to stop all foreground services: native error")
     /\ UNCHANGED <<Platform, serviceCalls, now>>
     /\ UNCHANGED tvars

\* ----------------------------------------------------------- specification
TaskManagerFields ==
  /\ tasks = <<>>
  /\ heap = <<>>
  /\ taskRunner = 0
  /\ isRunning = FALSE
  /\ timers = {}
  /\ executions = {}
  /\ late = {}
  /\ now = 0
  /\ obs = [id \in AllIds |-> NoObs]
  /\ lastRun = NoRun
  /\ addCalls = 0
  /\ registryCalls = 0

ServiceFields ==
  /\ serviceStartTime = Null
  /\ serviceCount = 0
  /\ pending = {}
  /\ settled = NoCall
  /\ serviceCalls = 0

Init ==
  /\ TaskManagerFields
  /\ ServiceFields
  /\ Platform = TestPlatform

\* the host makes one more registry call
HostCall ==
  /\ registryCalls < MaxCalls /\ registryCalls' = registryCalls + 1 /\ UNCHANGED addCalls
  /\ UNCHANGED late
  /\ UNCHANGED svars
\* the host makes one more addTask/updateTask call
HostAdd ==
  /\ addCalls < MaxAdds /\ addCalls' = addCalls + 1
  /\ registryCalls < MaxCalls /\ registryCalls' = registryCalls + 1
  /\ UNCHANGED late
  /\ UNCHANGED svars

HostAddTask == HostAdd /\ \E i \in AddInputs : AddTask(i.task, i.config)
HostUpdateTask == HostAdd /\ \E i \in UpdateInputs : UpdateTask(i.taskId, i.task, i.config)
HostRemoveTask == HostCall /\ \E id \in AllIds : RemoveTask(id)
HostPauseTask == HostCall /\ \E id \in AllIds : PauseTask(id)
HostResumeTask == HostCall /\ \E id \in AllIds : ResumeTask(id)
HostRemoveAllTasks == HostCall /\ RemoveAllTasks
TimerFires == (\E timer \in timers : Tick(timer)) /\ UNCHANGED late /\ UNCHANGED svars
ExecutionSettles ==
  /\ \E e \in executions, outcome \in {"resolved", "rejected", "timeout"} : Complete(e, outcome)
  /\ UNCHANGED svars
LateSettles ==
  /\ \E w \in late, outcome \in {"resolved", "rejected"} : LateResult(w, outcome)
  /\ UNCHANGED svars

Next ==
  \/ HostAddTask
  \/ HostUpdateTask
  \/ HostRemoveTask
  \/ HostPauseTask
  \/ HostResumeTask
  \/ HostRemoveAllTasks
  \/ TimerFires
  \/ ExecutionSettles
  \/ LateSettles
  \/ AdvanceTime

Spec == Init /\ [][Next]_vars

\* ------------------------------------------------------------ what must happen
\* the setTimeout of an execution fires: the race is lost to the timeout
TimeoutFires == (\E e \in executions : Complete(e, "timeout")) /\ UNCHANGED svars

\* ENABLED <<TimerFires>>_vars: an interval timer is due
TimerDue == \E t \in timers : now >= t.due
\* ENABLED <<TimeoutFires>>_vars: the timeout of an execution is due
TimeoutDue == \E e \in executions : now >= e.start + e.timeout

\* The runtime keeps its clock going and runs every timer callback that is due; a work() may
\* stay pending for ever, and the host may stop calling.  The second and third conjunct are
\* WF_vars(TimerFires) and WF_vars(TimeoutFires), written with the enabling conditions above.
LiveSpec ==
  /\ Spec
  /\ WF_vars(AdvanceTime)
  /\ ([]<>(~TimerDue) \/ []<><<TimerFires>>_vars)
  /\ ([]<>(~TimeoutDue) \/ []<><<TimeoutFires>>_vars)

\* ------------------------------------------- one repeating task, left alone
\* A host that adds one repeating task at time 0 and makes no other call; work() always
\* resolves, at once ("instant") or after any time ("slow").
ScenarioDelays == {500, 1000, 1500}
Periodic(d) == MkConfig("a", d, TRUE, Undefined, UndefinedNum, UndefinedNum, "returns", Undefined)
ScenarioInputs == { [task |-> w, config |-> Periodic(d)] : w \in {"instant", "slow"},
                                                           d \in ScenarioDelays }

ScenarioAdd ==
  /\ addCalls = 0 /\ now = 0
  /\ addCalls' = addCalls + 1 /\ registryCalls' = registryCalls + 1
  /\ \E i \in ScenarioInputs : AddTask(i.task, i.config)
  /\ UNCHANGED late
  /\ UNCHANGED svars

ScenarioSettles == (\E e \in executions : Complete(e, "resolved")) /\ UNCHANGED svars

\* the clock does not pass a due timer, nor an instant work() that has not resolved yet
ScenarioAdvance ==
  /\ now < ScenarioSteps * samplingInterval
  /\ \A t \in timers : now < t.due
  /\ \A e \in executions : heap[e.obj].task # "instant" /\ now < e.start + e.timeout
  /\ now' = now + samplingInterval
  /\ lastRun' = NoRun
  /\ UNCHANGED <<tasks, heap, taskRunner, isRunning, timers, executions, obs, addCalls, registryCalls>>
  /\ UNCHANGED late
  /\ UNCHANGED svars

ScenarioNext ==
  \/ ScenarioAdd
  \/ TimerFires
  \/ ScenarioSettles
  \/ ScenarioAdvance

ScenarioSpec == Init /\ [][ScenarioNext]_vars

\* --------------------------------------------- the foreground service alone
\* A host that calls startService, stopService and stopServiceAll on some device; the native
\* module answers every awaited call in any order and with any result.
ServiceInit ==
  /\ TaskManagerFields
  /\ ServiceFields
  /\ Platform \in Platforms

HostStartService == HostServiceCall /\ \E options \in ServiceOptions : StartService(options)
HostStopService == HostServiceCall /\ StopService
HostStopServiceAll == HostServiceCall /\ StopServiceAll
NativeSettles ==
  \E c \in pending : \E result \in NativeResults(c.trace[Len(c.trace)].method) :
    NativeReturns(c, result)
ServiceAdvanceTime ==
  /\ now < MaxServiceTime
  /\ now' = now + 1
  /\ settled' = NoCall
  /\ UNCHANGED <<Platform, serviceStartTime, serviceCount, pending, serviceCalls>>
  /\ UNCHANGED tvars

ServiceNext ==
  \/ HostStartService
  \/ HostStopService
  \/ HostStopServiceAll
  \/ NativeSettles
  \/ ServiceAdvanceTime

ServiceSpec == ServiceInit /\ [][ServiceNext]_vars

\* ------------------------------------------------------------------ claims
TaskOf(id) == heap[MapGet(tasks, id)]
AllFail(runs) == \A i \in 1..Len(runs) : runs[i] = "fail"
\* number of "fail" entries at the end of runs
TrailingFails(runs) ==
  Cardinality({ i \in 1..Len(runs) : \A j \in i..Len(runs) : runs[j] = "fail" })
StatsSum == GetStats.runningTasks + GetStats.pendingTasks + GetStats.failedTasks
            + GetStats.completedTasks

\* C1: no self-overlap -- at most one execution of an id is in flight at any time
NoSelfOverlap == \A id \in AllIds : Cardinality(InFlight(id)) <= 1

\* C2: retry bound -- a task added with maxRetries = N whose work() fails on every attempt,
\* with no registry call on its id, is executed at most N+1 times and is failed exactly
\* when N+1 attempts have failed
RetryBound ==
  \A id \in AllIds :
    (obs[id].clean /\ AllFail(obs[id].runs) /\ MapHas(tasks, id)) =>
      LET task == TaskOf(id)
          N == task.config.retryCount
          k == Len(obs[id].runs)
      IN /\ task.executionCount = k + Cardinality(InFlight(id))
         /\ task.executionCount <= N + 1
         /\ (task.status = "failed") <=> (k = N + 1)

RetryBoundWitness ==
  \E id \in AllIds :
    /\ obs[id].clean /\ AllFail(obs[id].runs) /\ MapHas(tasks, id)
    /\ TaskOf(id).config.retryCount >= 1
    /\ Len(obs[id].runs) = TaskOf(id).config.retryCount + 1
    /\ TaskOf(id).status = "failed"

\* C3: one-shot cleanup -- no record with state completed is ever observable through
\* getTaskStatus, getAllTasks or getStats
OneShotCleanup ==
  /\ \A id \in AllIds : GetTaskStatus(id) # <<>> => GetTaskStatus(id)[1].status # "completed"
  /\ \A id \in DOMAIN GetAllTasks : GetAllTasks[id].status # "completed"
  /\ GetStats.completedTasks = 0

\* C4: retryAttempts is reset by every success -- for a repeating task, retryAttempts counts
\* the failures since the last success, and the task is failed only after N+1 failures in a row
RetryAttemptsReset ==
  \A id \in AllIds :
    (obs[id].clean /\ MapHas(tasks, id) /\ TaskOf(id).config.onLoop) =>
      /\ TaskOf(id).retryAttempts = TrailingFails(obs[id].runs)
      /\ TaskOf(id).status = "failed" =>
           TrailingFails(obs[id].runs) >= TaskOf(id).config.retryCount + 1

\* C5: after a removal the id stays absent from the table until a later addTask/updateTask,
\* even if an execution of it was in flight
RemovedStaysAbsent ==
  [][\A id \in AllIds :
       (~MapHas(tasks, id) /\ MapHas(tasks', id)) => addCalls' # addCalls]_vars

\* C6: failed is terminal -- a record that an execution has marked failed is not dispatched
\* again until it is removed or replaced by addTask/updateTask, whatever pauseTask and
\* resumeTask calls are made
FailedNeverRunsAgain ==
  \A id \in AllIds :
    (obs[id].wasFailed /\ MapHas(tasks, id)) => TaskOf(id).status # "running"

\* C7: stats consistency -- totalTasks == runningTasks + pendingTasks + failedTasks + completedTasks
StatsConsistency == GetStats.totalTasks = StatsSum

\* C7 as amended: the five counts differ by exactly the number of paused records
StatsConsistencyWithPaused == GetStats.totalTasks = StatsSum + CountStatus("paused")

StatsWithPausedWitness == CountStatus("paused") >= 1 /\ GetStats.totalTasks >= 2

\* C8: scenario -- delay 0, one-shot, maxRetries 2, work fails twice and then succeeds:
\* three attempts, the record is gone, onError was called twice and onSuccess once
ScenarioFailFailSucceed ==
  \A id \in AllIds :
    (/\ obs[id].clean
     /\ obs[id].config.delay = 0 /\ ~obs[id].config.onLoop /\ obs[id].config.retryCount = 2
     /\ obs[id].runs = <<"fail", "fail", "ok">>) =>
      /\ GetTaskStatus(id) = <<>>
      /\ obs[id].onError = 2
      /\ obs[id].onSuccess = 1

\* C9: an execution that moves a task to failed, with onError configured, calls onError
\* exactly once, with the error that failed it, after the state was set to failed
OnErrorOnFailed ==
  (lastRun.statusAfter = "failed" /\ lastRun.onError # Undefined) =>
    /\ CountCalls(lastRun.calls, "onError") = 1
    /\ LET c == lastRun.calls[Len(lastRun.calls)]
       IN /\ c.cb = "onError"
          /\ c.statusSeen = "failed"
          /\ c.arg = lastRun.error
          /\ lastRun.outcome = "rejected" => c.arg = "work rejected"
          /\ lastRun.outcome = "timeout" => c.arg = "Task timeout"

OnErrorOnFailedWitness ==
  /\ lastRun.statusAfter = "failed"
  /\ lastRun.outcome = "timeout"
  /\ lastRun.onError # Undefined
  /\ Len(lastRun.calls) = 1

\* C10: after the last remaining one-shot task succeeds the loop is stopped and the polling
\* timer is cleared
LoopStopsAfterLastOneShot ==
  (/\ lastRun.outcome = "resolved"
   /\ lastRun.statusAfter = "completed"
   /\ MapKeys(tasks) \subseteq {lastRun.taskId}) =>
    /\ ~isRunning
    /\ taskRunner = 0
    /\ timers = {}

\* the step is resumeTask(id) acting on a paused record
ResumesPaused(id) ==
  /\ registryCalls' # registryCalls /\ addCalls' = addCalls
  /\ MapHas(tasks, id) /\ TaskOf(id).status = "paused"
  /\ MapHas(tasks', id) /\ MapGet(tasks', id) = MapGet(tasks, id)
  /\ heap'[MapGet(tasks', id)].status = "pending"

\* C11: after addTask, updateTask (known or unknown id) or resumeTask on a paused task has
\* returned, the scheduler loop is running with its polling timer armed
LoopRunsAfterAddUpdateResume ==
  [][(addCalls' # addCalls \/ \E id \in AllIds : ResumesPaused(id)) =>
       (isRunning' /\ taskRunner' # 0 /\ \E t \in timers' : t.id = taskRunner')]_vars

\* C12: a paused task is never selected as due -- from pauseTask(id) on a pending record until
\* resumeTask, updateTask or addTask is called for id (or id is removed), no tick dispatches id
\* and the runCount reported for id does not change
PausedNotDispatched ==
  [][\A id \in AllIds :
       (obs[id].pausedCount # UndefinedNum /\ obs'[id].pausedCount # UndefinedNum) =>
         /\ \A e \in executions' \ executions : heap'[e.obj].taskId # id
         /\ MapHas(tasks', id) => heap'[MapGet(tasks', id)].executionCount = obs[id].pausedCount]_vars

\* resumeTask(id) resumed the record under id, and no other registry call on id has followed
Resumed(id) == obs[id].resumedAt # UndefinedNum /\ MapHas(tasks, id)
\* t + delayMs for that resume
ResumeDue(id) == obs[id].resumedAt + Coalesce(TaskOf(id).config.delay, 0)
NoTimerDue == \A t \in timers : now < t.due

RepeatRescheduled ==
  (lastRun.outcome = "resolved" /\ lastRun.error = "none" /\ lastRun.statusAfter = "pending") =>
    /\ MapHas(tasks, lastRun.taskId)
    /\ LET task == TaskOf(lastRun.taskId)
       IN /\ task.status = "pending"
          /\ task.nextExecutionTime = now + Coalesce(task.config.delay, 0)
          /\ \A t \in 0..(now + Coalesce(task.config.delay, 0) - 1) : ~ShouldExecuteTask(task, t)
          /\ ShouldExecuteTask(task, now + Coalesce(task.config.delay, 0))

\* every tick and every instant work() of the current instant has run
Quiet == NoTimerDue /\ \A e \in executions : heap[e.obj].task # "instant"

\* C15: a task added at time 0 with delayMs = 1000, repeat = true and work that succeeds
\* instantly has runCount 3 or 4 after 3500 ms under the 500 ms polling interval; the runCount
\* of a repeating task added at 0 never exceeds floor(T/delayMs) + 1 after T ms
ScenarioRunCount ==
  \A id \in AllIds :
    MapHas(tasks, id) =>
      LET task == TaskOf(id)
      IN /\ task.executionCount <= (now \div task.config.delay) + 1
         /\ (task.task = "instant" /\ task.config.delay = 1000 /\ now = 3500 /\ Quiet) =>
              task.executionCount \in {3, 4}

ScenarioRunCountWitness ==
  /\ MapHas(tasks, "a")
  /\ TaskOf("a").task = "instant" /\ TaskOf("a").config.delay = 1000
  /\ now = 3500 /\ Quiet
  /\ TaskOf("a").executionCount = 3

\* C16: updateTask(id, work, config) on a known id replaces work and configuration, sets
\* state = pending and nextRunAt = now + delayMs, leaves runCount, retryAttempts and lastRunAt
\* of the record unchanged, and leaves every other record unchanged
UpdateKnownFrame ==
  [][\A i \in UpdateInputs :
       (MapHas(tasks, i.taskId) /\ HostAdd /\ UpdateTask(i.taskId, i.task, i.config)) =>
         /\ MapKeys(tasks') = MapKeys(tasks)
         /\ LET old == TaskOf(i.taskId)
                new == heap'[MapGet(tasks', i.taskId)]
            IN /\ new.task = i.task
               /\ new.config.delay = i.config.delay /\ new.config.onLoop = i.config.onLoop
               /\ new.config.priority = CoalesceStr(i.config.priority, "normal")
               /\ new.config.retryCount = Coalesce(i.config.retryCount, 0)
               /\ new.config.timeout = Coalesce(i.config.timeout, DefaultTimeout)
               /\ new.config.onSuccess = i.config.onSuccess
               /\ new.config.onError = i.config.onError
               /\ new.status = "pending"
               /\ new.nextExecutionTime = now + Coalesce(i.config.delay, 0)
               /\ new.executionCount = old.executionCount
               /\ new.retryAttempts = old.retryAttempts
               /\ new.lastExecutionTime = old.lastExecutionTime
               /\ new.taskId = old.taskId
         /\ \A id \in MapKeys(tasks) \ {i.taskId} :
              heap'[MapGet(tasks', id)] = heap[MapGet(tasks, id)]]_vars

\* a record updated after two failed runs: it is pending again with the counters of its past
UpdateKnownWitness ==
  /\ MapHas(tasks, "a")
  /\ TaskOf("a").task = "g"
  /\ TaskOf("a").status = "pending"
  /\ TaskOf("a").executionCount = 2
  /\ TaskOf("a").retryAttempts = 2
  /\ TaskOf("a").config.retryCount = 1
  /\ TaskOf("a").nextExecutionTime = now + 500
  /\ ~obs["a"].wasFailed

\* the step is a firing of the polling timer
TickStep == registryCalls' = registryCalls /\ timers' # timers
\* the step is the end of an execution whose work() threw, rejected or timed out
FailureStep == lastRun'.outcome \in {"rejected", "timeout"}

\* C17: failure containment -- the failure of one task's work() leaves the loop running and
\* changes no record other than the failing task's own, and every tick, whatever has failed
\* before, dispatches every record that is pending and due
FailureContained ==
  [][/\ FailureStep =>
          /\ isRunning' = isRunning /\ taskRunner' = taskRunner /\ timers' = timers
          /\ \A id \in AllIds \ {lastRun'.taskId} :
               /\ MapHas(tasks', id) <=> MapHas(tasks, id)
               /\ MapHas(tasks, id) =>
                    /\ MapGet(tasks', id) = MapGet(tasks, id)
                    /\ heap'[MapGet(tasks', id)] = heap[MapGet(tasks, id)]
     /\ (TickStep /\ isRunning) =>
          \A i \in 1..Len(tasks) :
            ShouldExecuteTask(heap[tasks[i].ref], now) =>
              /\ heap'[tasks[i].ref].status = "running"
              /\ \E e \in executions' : e.obj = tasks[i].ref /\ e.start = now]_vars

\* one task has failed for good and another one was dispatched by a later tick
FailureContainedWitness ==
  \E id1, id2 \in AllIds :
    /\ id1 # id2 /\ MapHas(tasks, id1) /\ MapHas(tasks, id2)
    /\ TaskOf(id1).status = "failed"
    /\ TaskOf(id2).status = "running"
    /\ TaskOf(id2).lastExecutionTime > TaskOf(id1).lastExecutionTime
    /\ isRunning

\* the last instant the clock of the model reaches
Horizon == MaxSteps * samplingInterval

\* the step ends execution e by its timeout, with the accounting of a rejection
TimeoutCountedAsFailure(e) ==
  /\ now >= e.start + e.timeout
  /\ lastRun'.error = "Task timeout"
  /\ e.obj \in DOMAIN heap' =>
       LET before == heap[e.obj]
           after == heap'[e.obj]
       IN /\ after.retryAttempts = before.retryAttempts + 1
          /\ after.status = IF after.retryAttempts <= before.config.retryCount
                            THEN "pending" ELSE "failed"
          /\ after = ExecuteTaskResume(e.obj, before, tasks, "rejected", now).task

\* C18: an execution whose work() has not resolved timeoutMs after dispatch is recorded as a
\* failure with the retry accounting of a rejection, and so every record that enters running
\* leaves running, even when work() never resolves
TimeoutIsFailure ==
  /\ [][lastRun'.outcome = "timeout" =>
          \E e \in executions \ executions' : TimeoutCountedAsFailure(e)]_vars
  /\ \A o \in ObjIds :
       (/\ o \in DOMAIN heap /\ heap[o].status = "running"
        /\ \A e \in executions : e.obj = o => e.start + e.timeout <= Horizon)
         ~> ~(o \in DOMAIN heap /\ heap[o].status = "running")

\* a timeout that was retried
TimeoutRetriedWitness ==
  /\ lastRun.outcome = "timeout"
  /\ lastRun.statusAfter = "pending"
  /\ MapHas(tasks, lastRun.taskId)
  /\ TaskOf(lastRun.taskId).retryAttempts = 1
  /\ TaskOf(lastRun.taskId).config.retryCount = 1

\* the records a tick at this instant selects, in table order
DueInTableOrder == SelectSeq(MapValues(tasks), LAMBDA o : ShouldExecuteTask(heap[o], now))
PriorityOf(o) == heap[o].config.priority

\* C19: priority order within a tick -- the executions a tick initiates are those of all due
\* records, every high-priority one before any other, and every low-priority one after any
\* other (a record with no priority set counts as normal); stated of the order in which the
\* last tick made its executeTask calls and of the order the next tick would make them in
PriorityOrder ==
  LET ready == ReadyTasks(tasks, heap, now)
      started == lastRun.dispatched
  IN /\ \A i, j \in 1..Len(started) :
          i < j =>
            /\ TaskOf(started[j]).config.priority = "high" =>
                 TaskOf(started[i]).config.priority = "high"
            /\ TaskOf(started[i]).config.priority = "low" =>
                 TaskOf(started[j]).config.priority = "low"
     /\ Len(ready) = Len(DueInTableOrder)
     /\ { ready[i] : i \in 1..Len(ready) } = { DueInTableOrder[i] : i \in 1..Len(DueInTableOrder) }
     /\ \A i, j \in 1..Len(ready) :
          i < j =>
            /\ PriorityOf(ready[j]) = "high" => PriorityOf(ready[i]) = "high"
            /\ PriorityOf(ready[i]) = "low" => PriorityOf(ready[j]) = "low"

\* two records are due, the later one in the table has the higher priority and goes first
PriorityOrderWitness ==
  /\ Len(lastRun.dispatched) = 2 /\ Len(tasks) = 2
  /\ lastRun.dispatched[1] = tasks[2].key
  /\ TaskOf(lastRun.dispatched[1]).config.priority = "high"
  /\ TaskOf(lastRun.dispatched[2]).config.priority \in {"normal", "low"}
  /\ \A i \in 1..2 : TaskOf(lastRun.dispatched[i]).status = "running"

\* the record under id is the object o, it is pending and the loop is running; neither the
\* next tick nor the nextRunAt of the record is a later time than the clock of the model reaches
PendingAndPolled(id, o) ==
  /\ isRunning /\ \E t \in timers : t.id = taskRunner /\ t.due <= Horizon
  /\ MapHas(tasks, id) /\ MapGet(tasks, id) = o
  /\ heap[o].status = "pending"
  /\ (heap[o].nextExecutionTime = NaN \/ heap[o].nextExecutionTime <= Horizon)

\* the record o under id is still waiting: not dispatched, paused, removed or replaced, nor
\* rescheduled to a later time than the clock of the model reaches
StillPending(id, o) ==
  /\ MapHas(tasks, id) /\ MapGet(tasks, id) = o /\ heap[o].status = "pending"
  /\ (heap[o].nextExecutionTime = NaN \/ heap[o].nextExecutionTime <= Horizon)

\* C20: loop start liveness -- after addTask the loop is running with its timer armed, and a
\* pending record is eventually dispatched (leaves pending) unless it is paused, removed or
\* replaced
PendingIsDispatched ==
  /\ [][HostAddTask => (isRunning' /\ \E t \in timers' : t.id = taskRunner')]_vars
  /\ \A id \in AllIds, o \in ObjIds : PendingAndPolled(id, o) ~> ~StillPending(id, o)

\* C21: addTask(work, config) returns config.taskId when given and a generated id otherwise,
\* and when it returns the table holds under that id a record with that work, status pending,
\* executionCount 0, retryAttempts 0, no lastExecutionTime, nextExecutionTime = now + delay
\* (now when delay is unset), the config as given, and priority normal, retryCount 0,
\* timeout 30000 where the config gave none.
AddedRecord(i, id) ==
  /\ lastRun'.returned = id
  /\ MapHas(tasks', id)
  /\ LET task == heap'[MapGet(tasks', id)]
     IN /\ task.taskId = id
        /\ task.task = i.task
        /\ task.status = "pending"
        /\ task.executionCount = 0
        /\ task.retryAttempts = 0
        /\ task.lastExecutionTime = UndefinedNum
        /\ task.nextExecutionTime = now + (IF i.config.delay = UndefinedNum THEN 0
                                           ELSE i.config.delay)
        /\ task.config.priority =
             (IF i.config.priority = Undefined THEN "normal" ELSE i.config.priority)
        /\ task.config.retryCount =
             (IF i.config.retryCount = UndefinedNum THEN 0 ELSE i.config.retryCount)
        /\ task.config.timeout =
             (IF i.config.timeout = UndefinedNum THEN 30000 ELSE i.config.timeout)
        /\ task.config.taskId = i.config.taskId
        /\ task.config.delay = i.config.delay
        /\ task.config.onLoop = i.config.onLoop
        /\ task.config.onSuccess = i.config.onSuccess
        /\ task.config.onError = i.config.onError
AddTaskRecord ==
  [][\A i \in AddInputs :
       (HostAdd /\ AddTask(i.task, i.config))
         => \E id \in AllIds :
              /\ IF i.config.taskId # Undefined
                 THEN id = i.config.taskId
                 ELSE id \in GenIds /\ ~MapHas(tasks, id)
              /\ AddedRecord(i, id)]_vars
\* addTask has just returned a generated id for a config that set neither delay nor
\* retryCount, at a time later than 0
AddTaskRecordWitness ==
  /\ lastRun.returned \in GenIds
  /\ MapHas(tasks, lastRun.returned)
  /\ now > 0
  /\ TaskOf(lastRun.returned).config.delay = UndefinedNum
  /\ TaskOf(lastRun.returned).config.retryCount = 0
  /\ TaskOf(lastRun.returned).nextExecutionTime = now

\* C22: updateTask(id, work, config) on an id that is not in the table leaves the table and
\* the loop (isRunning, taskRunner, the armed timers) exactly as addTask(work, {...config,
\* taskId: id}) leaves them from the same state.
UpdateUnknownIsAdd ==
  [][\A i \in UpdateInputs :
       (~MapHas(tasks, i.taskId) /\ HostAdd /\ UpdateTask(i.taskId, i.task, i.config))
         => AddTask(i.task, [i.config EXCEPT !.taskId = i.taskId])]_vars
\* updateTask has just added "task_r", which was not in the table, next to another record,
\* with the loop already running
UpdateUnknownWitness ==
  /\ lastRun.returned = "task_r"
  /\ MapKeys(tasks) = {"a", "task_r"}
  /\ TaskOf("task_r").task = "g"
  /\ TaskOf("task_r").executionCount = 0
  /\ TaskOf("task_r").config.taskId = "task_r"
  /\ isRunning

\* C23: idempotent removal -- removeTask(id) always returns; on an id that is not in the
\* table it leaves the table and every record in it as they were; and a removeTask(id) that
\* directly follows a removeTask(id) changes neither the table nor the loop (isRunning,
\* taskRunner, the armed timers).
JustRemoved(id) == lastRun.removed # <<>> /\ lastRun.removed[Len(lastRun.removed)] = id
RemoveStep(id) ==
  /\ ~MapHas(tasks, id)
       => /\ tasks' = tasks
          /\ \A k \in MapKeys(tasks) : heap'[MapGet(tasks', k)] = heap[MapGet(tasks, k)]
  /\ JustRemoved(id)
       => /\ tasks' = tasks
          /\ heap' = heap
          /\ isRunning' = isRunning
          /\ taskRunner' = taskRunner
          /\ timers' = timers
RemoveIdempotent ==
  /\ [](\A id \in AllIds : registryCalls < MaxCalls => ENABLED (HostCall /\ RemoveTask(id)))
  /\ [][\A id \in AllIds : (HostCall /\ RemoveTask(id)) => RemoveStep(id)]_vars
\* removeTask(id) has just been called twice in a row, the first call having removed the last
\* record and stopped the loop
RemoveTwiceWitness ==
  /\ Len(lastRun.removed) = 2
  /\ lastRun.removed[1] = lastRun.removed[2]
  /\ obs[lastRun.removed[1]].wasFailed = FALSE
  /\ tasks = <<>>
  /\ ~isRunning
  /\ now > 0
\* removeTask has just been called on an id that is not in the table, next to a record of
\* another id
RemoveAbsentWitness ==
  /\ lastRun.removed = <<"task_r">>
  /\ MapKeys(tasks) = {"a"}
  /\ obs["a"].clean
  /\ isRunning

\* C24: on Android, startService rejects when taskName or taskTitle is missing, and when
\* serviceType is missing on API level 34 or higher; the call rejects at once, having called
\* neither checkPermission, requestPermission nor the native startService, and leaves
\* serviceCount and serviceStartTime as they were.
MissingField(options) ==
  \/ options.taskName \in {Undefined, ""}
  \/ options.taskTitle \in {Undefined, ""}
  \/ (Platform.Version >= 34 /\ options.serviceType \in {Undefined, ""})
StartServiceValidates ==
  [][\A options \in ServiceOptions :
       (HostServiceCall /\ StartService(options) /\ Platform.OS = "android"
          /\ MissingField(options))
         => /\ settled'.op = "startService"
            /\ settled'.outcome = "rejected"
            /\ settled'.trace = <<>>
            /\ pending' = pending
            /\ serviceCount' = serviceCount
            /\ serviceStartTime' = serviceStartTime]_vars
\* on Android 14, with one service started, a startService call without serviceType has just
\* been rejected
StartServiceValidatesWitness ==
  /\ Platform = [OS |-> "android", Version |-> 34]
  /\ settled.op = "startService"
  /\ settled.outcome = "rejected"
  /\ settled.options.taskName = "test-task"
  /\ settled.options.taskTitle = "Test Task"
  /\ settled.options.serviceType = Undefined
  /\ settled.trace = <<>>
  /\ serviceCount = 1
  /\ serviceStartTime # Null

\* C25: no lost update -- when addTask or updateTask has stored a new record under an id
\* that had one, while an execution of the id was in flight, the completion of that
\* execution leaves the new record in the table, with its work, configuration and counters.
NoLostUpdate ==
  [][\A e \in executions, outcome \in {"resolved", "rejected", "timeout"} :
       LET id == heap[e.obj].taskId
           new == obs[id].replacedBy
       IN (Complete(e, outcome) /\ new # 0 /\ new # e.obj /\ MapHas(tasks, id)
             /\ MapGet(tasks, id) = new)
            => /\ MapHas(tasks', id)
               /\ MapGet(tasks', id) = new
               /\ heap'[new].task = heap[new].task
               /\ heap'[new].config = heap[new].config
               /\ heap'[new].executionCount = heap[new].executionCount
               /\ heap'[new].retryAttempts = heap[new].retryAttempts]_vars

\* C26: pause is sticky -- a repeating task that pauseTask paused while its execution was in
\* flight is still paused, under the same record, when that execution completes.
PauseSurvivesCompletion ==
  [][\A e \in executions, outcome \in {"resolved", "rejected", "timeout"} :
       LET id == heap[e.obj].taskId
       IN (Complete(e, outcome) /\ MapHas(tasks, id) /\ MapGet(tasks, id) = e.obj
             /\ heap[e.obj].status = "paused" /\ heap[e.obj].config.onLoop)
            => /\ MapHas(tasks', id)
               /\ MapGet(tasks', id) = e.obj
               /\ heap'[e.obj].status = "paused"]_vars

\* C27: an execution whose work() resolved is not accounted as a failure, whatever its
\* onSuccess callback does: the step in which it completes does not increment retryAttempts,
\* does not leave the record failed and does not call onError.
ResolvedIsNotFailure ==
  [][\A e \in executions :
       Complete(e, "resolved")
         => /\ lastRun'.statusAfter # "failed"
            /\ CountCalls(lastRun'.calls, "onError") = 0
            /\ e.obj \in DOMAIN heap' => heap'[e.obj].retryAttempts = heap[e.obj].retryAttempts]_vars

\* C28: loop/table invariant -- in every state between operations the scheduler loop is
\* running (isRunning, with its interval timer armed) exactly when the table holds a record.
LoopIffTable ==
  /\ isRunning <=> MapSize(tasks) > 0
  /\ isRunning <=> \E t \in timers : t.id = taskRunner
\* the half of it that a completed one-shot task does not touch: no record is left in a table
\* whose loop is stopped
NoRecordWithoutLoop == MapSize(tasks) > 0 => isRunning

\* C29: runCount accounting -- the executionCount of a record in the table is the number of
\* executions dispatched for its id since addTask created the record; updateTask does not
\* start the count again.
RunCountIsDispatches ==
  \A id \in AllIds :
    (MapHas(tasks, id) /\ obs[id].dispatches # UndefinedNum)
      => TaskOf(id).executionCount = obs[id].dispatches

\* C30: ticks do not block on executions -- while an execution dispatched by an earlier tick
\* is in flight, the interval timer still fires when it is due, and the tick dispatches every
\* record that is pending and due at that time.
EarlierInFlight == \E e \in executions : e.start < now
TicksDoNotBlock ==
  /\ []((isRunning /\ EarlierInFlight /\ TimerDue) => ENABLED TimerFires)
  /\ [][(TimerFires /\ isRunning /\ EarlierInFlight) =>
          \A i \in 1..Len(tasks) :
            LET o == tasks[i].ref
            IN (heap[o].status = "pending" /\ heap[o].nextExecutionTime # NaN
                  /\ heap[o].nextExecutionTime <= now)
                 => /\ \E e \in executions' : e.obj = o /\ e.start = now
                    /\ \E k \in 1..Len(lastRun'.dispatched) :
                         lastRun'.dispatched[k] = tasks[i].key
                    /\ heap'[o].status = "running"
                    /\ heap'[o].executionCount = heap[o].executionCount + 1]_vars
\* a tick has just dispatched one task while an execution of another task, dispatched by an
\* earlier tick, is still in flight
TicksDoNotBlockWitness ==
  \E e1, e2 \in executions :
    /\ e1.start < now
    /\ e2.start = now
    /\ heap[e1.obj].taskId # heap[e2.obj].taskId
    /\ lastRun.dispatched = <<heap[e2.obj].taskId>>
    /\ heap[e1.obj].status = "running"
    /\ heap[e2.obj].status = "running"

\* C31: late results are ignored -- once an execution has been recorded as a timeout
\* failure, the later resolution or rejection of its work() call changes no record (status,
\* retryAttempts, nextExecutionTime, membership of the table) nor the loop, and calls neither
\* onSuccess nor onError.
LateResultIgnored ==
  [][\A w \in late, outcome \in {"resolved", "rejected"} :
       LateResult(w, outcome)
         => /\ tasks' = tasks
            /\ heap' = heap
            /\ executions' = executions
            /\ isRunning' = isRunning /\ taskRunner' = taskRunner /\ timers' = timers
            /\ lastRun'.calls = <<>>
            /\ \A id \in AllIds : /\ obs'[id].onSuccess = obs[id].onSuccess
                                  /\ obs'[id].onError = obs[id].onError]_vars
\* the work() of a task that timed out and waits for its retry has just resolved
LateResultWitness ==
  \E id \in AllIds :
    /\ lastRun.lateResult = "resolved"
    /\ obs[id].clean
    /\ obs[id].runs = <<"fail">>
    /\ MapHas(tasks, id)
    /\ TaskOf(id).status = "pending"
    /\ TaskOf(id).retryAttempts = 1
    /\ late = {}

\* C32: onSuccess, when the config has one, is called exactly once by an execution whose
\* work() resolved before the timeout and not at all by one that was rejected or timed out;
\* at the time of the call the record is already pending again (repeating task) or completed
\* and deleted from the table (one-shot task).
OnSuccessCalls(calls) == { i \in 1..Len(calls) : calls[i].cb = "onSuccess" }
OnSuccessAfterMutation ==
  [][\A e \in executions, outcome \in {"resolved", "rejected", "timeout"} :
       Complete(e, outcome)
         => LET config == heap[e.obj].config
                calls == lastRun'.calls
            IN /\ Cardinality(OnSuccessCalls(calls)) =
                    (IF outcome = "resolved" /\ config.onSuccess # Undefined THEN 1 ELSE 0)
               /\ \A i \in OnSuccessCalls(calls) :
                    IF config.onLoop
                    THEN calls[i].statusSeen = "pending"
                    ELSE calls[i].statusSeen = "completed" /\ ~calls[i].inTable]_vars
\* the work() of a one-shot task has just resolved and its onSuccess was called once, on a
\* completed record that had left the table
OnSuccessAfterMutationWitness ==
  /\ lastRun.outcome = "resolved"
  /\ Len(lastRun.calls) = 1
  /\ lastRun.calls[1].cb = "onSuccess"
  /\ lastRun.calls[1].statusSeen = "completed"
  /\ ~lastRun.calls[1].inTable
  /\ obs[lastRun.taskId].clean
  /\ obs[lastRun.taskId].onSuccess = 1

\* C33: the nextExecutionTime of the record under an id changes only in a step that leaves
\* that record pending; a step that leaves it running, paused, failed or completed leaves its
\* nextExecutionTime as it was.
NextRunChangesOnlyToPending ==
  [][\A id \in AllIds :
       (MapHas(tasks, id) /\ MapHas(tasks', id)
          /\ heap'[MapGet(tasks', id)].nextExecutionTime # TaskOf(id).nextExecutionTime)
         => heap'[MapGet(tasks', id)].status = "pending"]_vars
\* the same for every record object, whether the table holds it or not
ObjectNextRunChangesOnlyToPending ==
  [][\A o \in (DOMAIN heap) \cap (DOMAIN heap') :
       heap'[o].nextExecutionTime # heap[o].nextExecutionTime
         => heap'[o].status = "pending"]_vars

\* C34: an unset delay counts as 0 -- when an execution of a task whose config has no delay
\* ends with the record pending again (success of a repeating task, retryable failure), the
\* record is due at once: its nextExecutionTime is the time of the completion, as with delay 0.
UnsetDelayIsZero ==
  [][\A e \in executions, outcome \in {"resolved", "rejected", "timeout"} :
       (Complete(e, outcome) /\ heap[e.obj].config.delay = UndefinedNum
          /\ e.obj \in DOMAIN heap' /\ heap'[e.obj].status = "pending")
         => /\ heap'[e.obj].nextExecutionTime # NaN
            /\ heap'[e.obj].nextExecutionTime = now]_vars

\* C35: single timer -- at most one polling timer is armed at any time, isRunning is true
\* exactly when a timer handle is held, and that handle is the armed timer; an addTask call
\* made while the loop runs arms no timer, and one made while it is stopped arms exactly one.
SingleTimer ==
  /\ [](/\ Cardinality(timers) <= 1
        /\ isRunning <=> taskRunner # 0
        /\ \A t \in timers : t.id = taskRunner
        /\ isRunning => timers # {})
  /\ [][HostAddTask =>
          /\ isRunning => timers' = timers
          /\ ~isRunning => /\ timers = {}
                           /\ Cardinality(timers') = 1
                           /\ \A t \in timers' : t.due = now + 500
          /\ isRunning']_vars
\* the second addTask call, made after the loop was stopped, has just armed the one timer
SingleTimerWitness ==
  /\ lastRun.returned # Undefined
  /\ lastRun.armed
  /\ addCalls = 2
  /\ now > 0
  /\ isRunning
  /\ timers = {[id |-> taskRunner, due |-> now + samplingInterval]}

\* C36: a record in the table has a lastExecutionTime if and only if its executionCount is at
\* least 1, and getTaskStatus and getAllTasks leave lastExecutionTime out exactly for the
\* records with executionCount 0 (and report the record's value otherwise).
LastRunIffDispatched ==
  \A id \in MapKeys(tasks) :
    LET task == TaskOf(id)
        one == GetTaskStatus(id)[1]
        all == GetAllTasks[id]
    IN /\ task.lastExecutionTime # UndefinedNum <=> task.executionCount >= 1
       /\ "lastExecutionTime" \in DOMAIN one <=> task.executionCount >= 1
       /\ "lastExecutionTime" \in DOMAIN all <=> task.executionCount >= 1
       /\ task.executionCount >= 1 => /\ one.lastExecutionTime = task.lastExecutionTime
                                      /\ all.lastExecutionTime = task.lastExecutionTime
                                      /\ task.lastExecutionTime <= now
\* the table holds a record that has run once and is pending again, and one that never ran
LastRunIffDispatchedWitness ==
  \E id1, id2 \in MapKeys(tasks) :
    /\ TaskOf(id1).executionCount = 1
    /\ TaskOf(id1).status = "pending"
    /\ TaskOf(id2).executionCount = 0
    /\ "lastExecutionTime" \in DOMAIN GetAllTasks[id1]
    /\ "lastExecutionTime" \notin DOMAIN GetAllTasks[id2]

\* C37: permission gate -- startService calls the native startService only right after
\* checkPermission returned true or, checkPermission having returned false, right after
\* requestPermission returned true; when both return false the call rejects without having
\* called the native startService and leaves serviceCount and serviceStartTime as they were.
Gated(trace) ==
  \A i \in 1..Len(trace) :
    trace[i].method = "startService"
      => \/ /\ i = 2
            /\ trace[1] = [method |-> "checkPermission", result |-> "true"]
         \/ /\ i = 3
            /\ trace[1] = [method |-> "checkPermission", result |-> "false"]
            /\ trace[2] = [method |-> "requestPermission", result |-> "true"]
StartTraces ==
  { c.trace : c \in { p \in pending : p.op = "startService" } }
    \cup (IF settled.op = "startService" THEN {settled.trace} ELSE {})
PermissionGate ==
  /\ [](\A trace \in StartTraces : Gated(trace))
  /\ [][\A c \in pending :
          (NativeReturns(c, "false") /\ c.op = "startService"
             /\ c.trace[Len(c.trace)].method = "requestPermission")
            => /\ settled'.outcome = "rejected"
               /\ settled'.op = "startService"
               /\ \A i \in 1..Len(settled'.trace) : settled'.trace[i].method # "startService"
               /\ \A p \in pending' : p.id # c.id
               /\ serviceCount' = serviceCount
               /\ serviceStartTime' = serviceStartTime]_vars
\* with one service started, a second startService has just been rejected after both
\* checkPermission and requestPermission returned false
PermissionGateWitness ==
  /\ settled.op = "startService"
  /\ settled.outcome = "rejected"
  /\ settled.trace = << [method |-> "checkPermission", result |-> "false"],
                        [method |-> "requestPermission", result |-> "false"] >>
  /\ serviceCount = 1
  /\ serviceStartTime # Null
\* a startService call went through after the permission was granted on request
PermissionGrantedWitness ==
  /\ settled.op = "startService"
  /\ settled.outcome = "resolved"
  /\ Len(settled.trace) = 3
  /\ settled.trace[2] = [method |-> "requestPermission", result |-> "true"]
  /\ serviceCount = 1

\* C38: service tracking -- in every state reached by startService, stopService and
\* stopServiceAll calls, interleaved in any way and each resolved or rejected by the native
\* module, serviceCount is at least 0 and serviceStartTime is null exactly when serviceCount
\* is 0; a step in which a call rejects leaves both fields as they were.
ServiceTracking ==
  /\ [](/\ serviceCount >= 0
        /\ serviceStartTime = Null <=> serviceCount = 0)
  /\ [][settled'.outcome = "rejected"
          => /\ serviceCount' = serviceCount
             /\ serviceStartTime' = serviceStartTime]_vars
\* of two services started, one has just been stopped: the start time is kept
ServiceTrackingWitness ==
  /\ settled.op = "stopService"
  /\ settled.outcome = "resolved"
  /\ serviceCount = 1
  /\ serviceStartTime # Null
  /\ pending = {}
\* a stopService call has just resolved with no service counted
ServiceStopAtZeroWitness ==
  /\ settled.op = "stopService"
  /\ settled.outcome = "resolved"
  /\ serviceCount = 0
  /\ serviceStartTime = Null
  /\ serviceCalls = 1

====
